---- MODULE Spec2Model ----
(***************************************************************************)
(* Model of ymp's Pipeline composition layer (src/src/ymp/stage/           *)
(* pipeline.py): Pipeline construction with its tail-first output-map      *)
(* merge, the recursive `project` property, and the StageStack memo table  *)
(* and configuration object the constructor and the property consult.      *)
(*                                                                         *)
(* StageStack, the stage registry and ConfigMgr live in modules of the     *)
(* repository that are not part of the source tree at hand (ymp.stage,     *)
(* ymp.config); they are modelled from the specification document and are  *)
(* marked as such where they are defined.                                  *)
(***************************************************************************)
EXTENDS Integers, Sequences, FiniteSets, TLC

(***************************************************************************)
(* Bounds of the model.                                                    *)
(***************************************************************************)
\* Total number of chain positions declared by the pipelines of one session.
MaxTotal == 3
\* Depth at which the interpreter gives up a recursion (RecursionError).
RecursionLimit == 5
\* Number of configuration reloads in one behaviour.
MaxReloads == 2
\* Number of threads requesting stage stacks concurrently.
NThreads == 2

(***************************************************************************)
(* The names a configuration may use.                                      *)
(***************************************************************************)
ProjectNames == {"proj1"}
StageNames == {"import", "trim_bbmap"}
PipelineNames == {"p1", "p2"}
UnknownNames == {"nosuch"}
Names == ProjectNames \cup StageNames \cup PipelineNames \cup UnknownNames
\* The names drawn for the positions after the first of a chain.
TailNames == StageNames \cup UnknownNames
Files == {"reads.fastq", "log.txt"}

\* The stage registries a session may load: two stages sharing an output
\* filename, and two stages with disjoint outputs.
Registries ==
    {("import" :> <<"reads.fastq">>) @@ ("trim_bbmap" :> <<"reads.fastq", "log.txt">>),
     ("import" :> <<"log.txt">>) @@ ("trim_bbmap" :> <<"reads.fastq">>)}

\* Exceptions
YmpConfigError == "YmpConfigError"
RecursionError == "RecursionError"
IndexError == "IndexError"
Ok == "ok"

ConfigIds == 0..MaxReloads
Threads == 1..NThreads

VARIABLES
    stage_registry, \* stage name -> declared output filenames
    projects,       \* cfg.projects: the registered project names
    cfgid,          \* the current ConfigMgr instance
    pipelines,      \* per ConfigMgr instance: cfg.pipelines, name -> Pipeline
    stacks,         \* per ConfigMgr instance: StageStack memo, key -> instance
    heap,           \* every StageStack instance constructed so far
    frame,          \* the `project` read in progress
    last,           \* the last completed call and what the caller got
    lock,           \* holder of the memo table's lock (0: free)
    tpc,            \* per thread: place in StageStack.get
    tkey,           \* per thread: the key requested
    tret            \* per thread: the instance received (0: none yet)

vars == <<stage_registry, projects, cfgid, pipelines, stacks, heap, frame,
          last, lock, tpc, tkey, tret>>

(***************************************************************************)
(* Helpers on sequences.                                                   *)
(***************************************************************************)
Range(s) == {s[i] : i \in 1..Len(s)}

SeqsUpTo(S, n) == UNION {[1..k -> S] : k \in 0..n}

EmptyMap == [x \in {} |-> 0]

\* ".".join(names)
RECURSIVE Join(_)
Join(names) ==
    IF names = <<>> THEN ""
    ELSE IF Len(names) = 1 THEN names[1]
    ELSE names[1] \o "." \o Join(Tail(names))

(***************************************************************************)
(* The configuration object.                                               *)
(***************************************************************************)
\* Variant of get_config: the configuration object is looked up once and kept.
get_configCached == CHOOSE c \in ConfigIds : \A d \in ConfigIds : c <= d

\* ymp.get_config(): the current ConfigMgr instance.
get_config == cfgid

\* Number of chain positions declared by the pipelines registered so far.
RECURSIVE SumLen(_, _)
SumLen(reg, names) ==
    IF names = {} THEN 0
    ELSE LET n == CHOOSE x \in names : TRUE
         IN Len(reg[n].stages) + SumLen(reg, names \ {n})

Declared == SumLen(pipelines[cfgid], DOMAIN pipelines[cfgid])

(***************************************************************************)
(* StageStack: the memo table of stage stacks, one per chain key and       *)
(* configuration instance.                                                 *)
(***************************************************************************)
\* An empty chain is invalid.
StageStackInvalid(key) == key = ""

\* The check of check-then-insert: is the key memoized?
MemoHit(key) == key \in DOMAIN stacks[get_config]

\* The insert of check-then-insert: a new instance, entered under its key.
MemoInsert(key) ==
    [id     |-> Len(heap) + 1,
     stacks |-> [stacks EXCEPT ![get_config] = (key :> (Len(heap) + 1)) @@ @],
     heap   |-> Append(heap, [path |-> key, cfg |-> cfgid])]

\* StageStack.get(key), uninterrupted.
StageStackGet(key) ==
    IF StageStackInvalid(key)
    THEN [status |-> YmpConfigError, id |-> 0, stacks |-> stacks, heap |-> heap]
    ELSE IF MemoHit(key)
    THEN [status |-> Ok, id |-> stacks[get_config][key],
          stacks |-> stacks, heap |-> heap]
    ELSE [status |-> Ok, id |-> MemoInsert(key).id,
          stacks |-> MemoInsert(key).stacks, heap |-> MemoInsert(key).heap]

\* StageStack._find_stage(name): the stage of that name, or "not found".
find_stage(name) ==
    IF name \in DOMAIN stage_registry
    THEN [found |-> TRUE, outputs |-> stage_registry[name]]
    ELSE [found |-> FALSE, outputs |-> <<>>]

(***************************************************************************)
(* Pipeline.__init__                                                       *)
(***************************************************************************)
\* Variant of ChainKey: a separator after every name.
ChainKeyTrailing(stages) == Join(stages) \o "."

\* Variant of ChainKey: the key is the name of the last stage alone.
ChainKeyTail(stages) == IF stages = <<>> THEN "" ELSE stages[Len(stages)]

\* ".".join(self.stages), the key the constructor asks StageStack for.
ChainKey(stages) == Join(stages)

\* fname in self.output_map
HasKey(output_map, fname) ==
    \E i \in 1..Len(output_map) : output_map[i].fname = fname

\* Variant of Record: self.output_map[fname] = path, whether present or not.
RecordOverwrite(output_map, fname, path) ==
    IF HasKey(output_map, fname)
    THEN [i \in 1..Len(output_map) |->
            IF output_map[i].fname = fname
            THEN [fname |-> fname, path |-> path]
            ELSE output_map[i]]
    ELSE Append(output_map, [fname |-> fname, path |-> path])

\* if fname not in self.output_map: self.output_map[fname] = path
Record(output_map, fname, path) ==
    IF HasKey(output_map, fname)
    THEN output_map
    ELSE Append(output_map, [fname |-> fname, path |-> path])

\* for fname in stage.outputs: ...
RECURSIVE RecordAll(_, _, _)
RecordAll(output_map, outputs, path) ==
    IF outputs = <<>> THEN output_map
    ELSE RecordAll(Record(output_map, Head(outputs), path), Tail(outputs), path)

\* Variant of LoopBody: a name that is not a stage ends the walk (break).
LoopBodyBreak(w) ==
    LET n     == Len(w.stage_names)
        path  == Join(w.stage_names)
        stage == find_stage(w.stage_names[n])
    IN [stage_names |-> IF stage.found
                        THEN SubSeq(w.stage_names, 1, n - 1)
                        ELSE <<>>,
        output_map  |-> IF stage.found
                        THEN RecordAll(w.output_map, stage.outputs, path)
                        ELSE w.output_map,
        visited     |-> Append(w.visited, n)]

\* Variant of LoopBody: the path is joined after the name has been popped.
LoopBodyPathAfterPop(w) ==
    LET n     == Len(w.stage_names)
        path  == Join(SubSeq(w.stage_names, 1, n - 1))
        stage == find_stage(w.stage_names[n])
    IN [stage_names |-> SubSeq(w.stage_names, 1, n - 1),
        output_map  |-> IF stage.found
                        THEN RecordAll(w.output_map, stage.outputs, path)
                        ELSE w.output_map,
        visited     |-> Append(w.visited, n)]

\* One pass of the while loop. w.visited lists the positions popped so far.
LoopBody(w) ==
    LET n     == Len(w.stage_names)
        path  == Join(w.stage_names)
        stage == find_stage(w.stage_names[n])
    IN [stage_names |-> SubSeq(w.stage_names, 1, n - 1),
        output_map  |-> IF stage.found
                        THEN RecordAll(w.output_map, stage.outputs, path)
                        ELSE w.output_map,
        visited     |-> Append(w.visited, n)]

\* while stage_names: ...
RECURSIVE Loop(_)
Loop(w) == IF w.stage_names = <<>> THEN w ELSE Loop(LoopBody(w))

\* Variant of StagesLeft: stage_names = self.stages, the walk pops the
\* pipeline's own list.
StagesLeftAliased(stages, w) == w.stage_names

\* stage_names = list(self.stages): the walk pops a copy, and self.stages is
\* after the walk w what it was before.
StagesLeft(stages, w) == stages

\* The object the constructor leaves behind, given the stack it obtained.
NewPipeline(name, cfg, stagestack) ==
    LET w == Loop([stage_names |-> cfg, output_map |-> <<>>, visited |-> <<>>])
    IN [name       |-> name,
        stages     |-> StagesLeft(cfg, w),
        stagestack |-> stagestack,
        output_map |-> w.output_map,
        visited    |-> w.visited]

Idle == [active |-> FALSE, pipe |-> "", cur |-> "", depth |-> 0]

ThreadsIdle == \A t \in Threads : tpc[t] = "idle"

\* Pipeline(name, cfg), and its registration as cfg.pipelines[name].
PipelineInit(name, cfg) ==
    /\ ~frame.active
    /\ ThreadsIdle
    /\ name \notin DOMAIN pipelines[cfgid]
    /\ Declared + Len(cfg) <= MaxTotal
    /\ LET got == StageStackGet(ChainKey(cfg))
       IN IF got.status # Ok
          THEN /\ last' = [op |-> "init", name |-> name, status |-> got.status,
                           value |-> cfg, depth |-> 0]
               /\ UNCHANGED <<pipelines, stacks, heap>>
          ELSE /\ pipelines' = [pipelines EXCEPT ![cfgid] =
                                  (name :> NewPipeline(name, cfg, got.id)) @@ @]
               /\ stacks' = got.stacks
               /\ heap' = got.heap
               /\ last' = [op |-> "init", name |-> name, status |-> Ok,
                           value |-> cfg, depth |-> 0]
    /\ UNCHANGED <<stage_registry, projects, cfgid, frame, lock, tpc, tkey, tret>>

(***************************************************************************)
(* Pipeline.outputs                                                        *)
(***************************************************************************)
\* Variant of outputs: list(self.output_map.values())
outputsValues(self) ==
    [i \in 1..Len(self.output_map) |-> self.output_map[i].path]

\* list(self.output_map.keys())
outputs(self) == [i \in 1..Len(self.output_map) |-> self.output_map[i].fname]

Outputs(name) ==
    /\ ~frame.active
    /\ ThreadsIdle
    /\ name \in DOMAIN pipelines[cfgid]
    /\ last' = [op |-> "outputs", name |-> name, status |-> Ok,
                value |-> outputs(pipelines[cfgid][name]), depth |-> 0]
    /\ UNCHANGED <<stage_registry, projects, cfgid, pipelines, stacks, heap,
                   frame, lock, tpc, tkey, tret>>

(***************************************************************************)
(* Pipeline.get_path and Pipeline.stamp                                    *)
(***************************************************************************)
\* return self.name
get_path(self) == self.name

\* self.dir: the pipeline's directory, named after the pipeline.
dir(self) == self.name

\* return self.dir + "/all_targets.stamp"
stamp(self) == dir(self) \o "/all_targets.stamp"

GetPath(name) ==
    /\ ~frame.active
    /\ ThreadsIdle
    /\ name \in DOMAIN pipelines[cfgid]
    /\ last' = [op |-> "get_path", name |-> name, status |-> Ok,
                value |-> <<get_path(pipelines[cfgid][name])>>, depth |-> 0]
    /\ UNCHANGED <<stage_registry, projects, cfgid, pipelines, stacks, heap,
                   frame, lock, tpc, tkey, tret>>

Stamp(name) ==
    /\ ~frame.active
    /\ ThreadsIdle
    /\ name \in DOMAIN pipelines[cfgid]
    /\ last' = [op |-> "stamp", name |-> name, status |-> Ok,
                value |-> <<stamp(pipelines[cfgid][name])>>, depth |-> 0]
    /\ UNCHANGED <<stage_registry, projects, cfgid, pipelines, stacks, heap,
                   frame, lock, tpc, tkey, tret>>

(***************************************************************************)
(* Pipeline.project: one activation of the property per step.              *)
(***************************************************************************)
\* Variant of ProjectLookup: the root pipeline itself is returned, not its
\* project.
ProjectLookupShallow(self) ==
    IF self.stages = <<>>
    THEN [kind |-> "raise", value |-> IndexError]
    ELSE IF self.stages[1] \in projects
    THEN [kind |-> "return", value |-> self.stages[1]]
    ELSE IF self.stages[1] \in DOMAIN pipelines[cfgid]
    THEN [kind |-> "return", value |-> self.stages[1]]
    ELSE [kind |-> "raise", value |-> YmpConfigError]

\* Variant of ProjectLookup: cfg.pipelines is consulted before cfg.projects.
ProjectLookupPipelinesFirst(self) ==
    IF self.stages = <<>>
    THEN [kind |-> "raise", value |-> IndexError]
    ELSE IF self.stages[1] \in DOMAIN pipelines[cfgid]
    THEN [kind |-> "delegate", value |-> self.stages[1]]
    ELSE IF self.stages[1] \in projects
    THEN [kind |-> "return", value |-> self.stages[1]]
    ELSE [kind |-> "raise", value |-> YmpConfigError]

\* The body of the property on the pipeline `self`.
ProjectLookup(self) ==
    LET cfg == get_config
    IN IF self.stages = <<>>
       THEN [kind |-> "raise", value |-> IndexError]
       ELSE IF self.stages[1] \in projects
       THEN [kind |-> "return", value |-> self.stages[1]]
       ELSE IF self.stages[1] \in DOMAIN pipelines[cfg]
       THEN [kind |-> "delegate", value |-> self.stages[1]]
       ELSE [kind |-> "raise", value |-> YmpConfigError]

Current == ProjectLookup(pipelines[get_config][frame.cur])

\* A caller reads pipelines[name].project.
ProjectRead(name) ==
    /\ ~frame.active
    /\ ThreadsIdle
    /\ name \in DOMAIN pipelines[cfgid]
    /\ frame' = [active |-> TRUE, pipe |-> name, cur |-> name, depth |-> 1]
    /\ UNCHANGED <<stage_registry, projects, cfgid, pipelines, stacks, heap,
                   last, lock, tpc, tkey, tret>>

\* return cfg.pipelines[self.stages[0]].project: enter the next activation.
ProjectDelegate ==
    /\ frame.active
    /\ Current.kind = "delegate"
    /\ frame.depth < RecursionLimit
    /\ frame' = [frame EXCEPT !.cur = Current.value, !.depth = @ + 1]
    /\ UNCHANGED <<stage_registry, projects, cfgid, pipelines, stacks, heap,
                   last, lock, tpc, tkey, tret>>

\* The next activation would exceed the interpreter's recursion limit.
ProjectOverflow ==
    /\ frame.active
    /\ Current.kind = "delegate"
    /\ frame.depth >= RecursionLimit
    /\ last' = [op |-> "project", name |-> frame.pipe, status |-> RecursionError,
                value |-> <<>>, depth |-> frame.depth]
    /\ frame' = Idle
    /\ UNCHANGED <<stage_registry, projects, cfgid, pipelines, stacks, heap,
                   lock, tpc, tkey, tret>>

\* return cfg.projects[self.stages[0]], handed up through every activation.
ProjectReturn ==
    /\ frame.active
    /\ Current.kind = "return"
    /\ last' = [op |-> "project", name |-> frame.pipe, status |-> Ok,
                value |-> <<Current.value>>, depth |-> frame.depth]
    /\ frame' = Idle
    /\ UNCHANGED <<stage_registry, projects, cfgid, pipelines, stacks, heap,
                   lock, tpc, tkey, tret>>

\* raise YmpConfigError(self.stages, ...), or the IndexError of stages[0].
ProjectRaise ==
    /\ frame.active
    /\ Current.kind = "raise"
    /\ last' = [op |-> "project", name |-> frame.pipe, status |-> Current.value,
                value |-> pipelines[get_config][frame.cur].stages,
                depth |-> frame.depth]
    /\ frame' = Idle
    /\ UNCHANGED <<stage_registry, projects, cfgid, pipelines, stacks, heap,
                   lock, tpc, tkey, tret>>

(***************************************************************************)
(* StageStack.get called directly, and the teardown of the configuration.  *)
(***************************************************************************)
\* A caller's StageStack.get(key) in the single-threaded session.
Get(key) ==
    /\ ~frame.active
    /\ ThreadsIdle
    /\ LET got == StageStackGet(key)
       IN /\ stacks' = got.stacks
          /\ heap' = got.heap
          /\ last' = [op |-> "get", name |-> key, status |-> got.status,
                      value |-> <<got.id>>, depth |-> 0]
    /\ UNCHANGED <<stage_registry, projects, cfgid, pipelines, frame,
                   lock, tpc, tkey, tret>>

\* The configuration object is deleted and a new one takes its place; the
\* registries and the memo table of the old one go with it.
Reload ==
    /\ ~frame.active
    /\ ThreadsIdle
    /\ cfgid < MaxReloads
    /\ cfgid' = cfgid + 1
    /\ pipelines' = [pipelines EXCEPT ![cfgid] = EmptyMap]
    /\ stacks' = [stacks EXCEPT ![cfgid] = EmptyMap]
    /\ last' = [op |-> "reload", name |-> "", status |-> Ok, value |-> <<>>,
                depth |-> 0]
    /\ UNCHANGED <<stage_registry, projects, heap, frame, lock, tpc, tkey, tret>>

(***************************************************************************)
(* StageStack.get called from several threads: the check-then-insert on    *)
(* the memo table runs under a single lock.                                *)
(***************************************************************************)
\* Variant of LockFree: the lock is not consulted.
LockFreeAlways(t) == TRUE

\* May thread t take the lock?
LockFree(t) == lock = 0

GetCall(t, key) ==
    /\ tpc[t] = "idle"
    /\ tpc' = [tpc EXCEPT ![t] = "acquire"]
    /\ tkey' = [tkey EXCEPT ![t] = key]
    /\ tret' = [tret EXCEPT ![t] = 0]
    /\ UNCHANGED <<stage_registry, projects, cfgid, pipelines, stacks, heap,
                   frame, last, lock>>

GetAcquire(t) ==
    /\ tpc[t] = "acquire"
    /\ LockFree(t)
    /\ lock' = t
    /\ tpc' = [tpc EXCEPT ![t] = "check"]
    /\ UNCHANGED <<stage_registry, projects, cfgid, pipelines, stacks, heap,
                   frame, last, tkey, tret>>

\* The check: a memoized instance is returned as it is.
GetCheck(t) ==
    /\ tpc[t] = "check"
    /\ IF MemoHit(tkey[t])
       THEN /\ tret' = [tret EXCEPT ![t] = stacks[get_config][tkey[t]]]
            /\ tpc' = [tpc EXCEPT ![t] = "release"]
       ELSE /\ tpc' = [tpc EXCEPT ![t] = "insert"]
            /\ UNCHANGED tret
    /\ UNCHANGED <<stage_registry, projects, cfgid, pipelines, stacks, heap,
                   frame, last, lock, tkey>>

\* The insert: a new instance is constructed and entered.
GetInsert(t) ==
    /\ tpc[t] = "insert"
    /\ stacks' = MemoInsert(tkey[t]).stacks
    /\ heap' = MemoInsert(tkey[t]).heap
    /\ tret' = [tret EXCEPT ![t] = MemoInsert(tkey[t]).id]
    /\ tpc' = [tpc EXCEPT ![t] = "release"]
    /\ UNCHANGED <<stage_registry, projects, cfgid, pipelines, frame, last,
                   lock, tkey>>

\* The lock is given up and the instance handed to the caller.
GetRelease(t) ==
    /\ tpc[t] = "release"
    /\ lock' = 0
    /\ tpc' = [tpc EXCEPT ![t] = "idle"]
    /\ UNCHANGED <<stage_registry, projects, cfgid, pipelines, stacks, heap,
                   frame, last, tkey, tret>>

(***************************************************************************)
(* The session                                                             *)
(***************************************************************************)
NoCall == [op |-> "none", name |-> "", status |-> Ok, value |-> <<>>, depth |-> 0]

Init ==
    /\ stage_registry \in Registries
    /\ projects = ProjectNames
    /\ cfgid = 0
    /\ pipelines = [c \in ConfigIds |-> EmptyMap]
    /\ stacks = [c \in ConfigIds |-> EmptyMap]
    /\ heap = <<>>
    /\ frame = Idle
    /\ last = NoCall
    /\ lock = 0
    /\ tpc = [t \in Threads |-> "idle"]
    /\ tkey = [t \in Threads |-> ""]
    /\ tret = [t \in Threads |-> 0]

\* The chains a pipeline may be declared with.
Chains ==
    {<<>>} \cup {<<root>> \o tail : root \in Names,
                                   tail \in SeqsUpTo(TailNames, MaxTotal - 1)}

Next ==
    \/ \E name \in PipelineNames, cfg \in Chains : PipelineInit(name, cfg)
    \/ \E name \in PipelineNames : Outputs(name)
    \/ \E name \in PipelineNames : GetPath(name)
    \/ \E name \in PipelineNames : Stamp(name)
    \/ \E name \in PipelineNames : ProjectRead(name)
    \/ ProjectDelegate
    \/ ProjectOverflow
    \/ ProjectReturn
    \/ ProjectRaise

Spec == Init /\ [][Next]_vars

\* A session whose project registry also holds a project that has the name
\* of a pipeline.
ShadowProjects == ProjectNames \cup {"p1"}

InitShadow ==
    /\ stage_registry \in Registries
    /\ projects = ShadowProjects
    /\ cfgid = 0
    /\ pipelines = [c \in ConfigIds |-> EmptyMap]
    /\ stacks = [c \in ConfigIds |-> EmptyMap]
    /\ heap = <<>>
    /\ frame = Idle
    /\ last = NoCall
    /\ lock = 0
    /\ tpc = [t \in Threads |-> "idle"]
    /\ tkey = [t \in Threads |-> ""]
    /\ tret = [t \in Threads |-> 0]

SpecShadow == InitShadow /\ [][Next]_vars

\* The chains and keys of the memoization sessions: the same two names in
\* both orders.
MemoChains == {<<"proj1", "import">>, <<"import", "proj1">>}
MemoKeys == {Join(c) : c \in MemoChains}

NextMemo ==
    \/ \E key \in MemoKeys \cup {""} : Get(key)
    \/ \E name \in PipelineNames, cfg \in MemoChains : PipelineInit(name, cfg)
    \/ Reload

SpecMemo == Init /\ [][NextMemo]_vars

NextConc ==
    \/ \E t \in Threads, key \in MemoKeys : GetCall(t, key)
    \/ \E t \in Threads : GetAcquire(t)
    \/ \E t \in Threads : GetCheck(t)
    \/ \E t \in Threads : GetInsert(t)
    \/ \E t \in Threads : GetRelease(t)

SpecConc == Init /\ [][NextConc]_vars

(***************************************************************************)
(* Properties                                                              *)
(***************************************************************************)
\* The pipelines registered in the current configuration.
Registered == DOMAIN pipelines[cfgid]
Pipe(n) == pipelines[cfgid][n]

Max(S) == CHOOSE x \in S : \A y \in S : y <= x

\* The positions of a chain whose name is a registered stage.
Resolvable(stages) == {i \in 1..Len(stages) : stages[i] \in DOMAIN stage_registry}

\* The resolvable positions whose stage declares the output filename f.
Declarers(stages, f) ==
    {i \in Resolvable(stages) : f \in Range(stage_registry[stages[i]])}

\* The filenames declared by the resolvable stages of a chain.
DeclaredFiles(stages) ==
    UNION {Range(stage_registry[stages[i]]) : i \in Resolvable(stages)}

\* The chain-prefix path ending at position i.
Prefix(stages, i) == Join(SubSeq(stages, 1, i))

\* The paths the output map holds for f.
PathsOf(output_map, f) ==
    {output_map[i].path : i \in {j \in 1..Len(output_map) : output_map[j].fname = f}}

\* C1: for every registered pipeline and every output filename declared by
\* two or more resolvable stages of its chain, the output map holds for it the
\* path of the declaring stage closest to the end of the chain, and the path
\* of no earlier declaring stage.
C1_TailWins ==
    \A n \in Registered : \A f \in Files :
        LET D == Declarers(Pipe(n).stages, f)
        IN Cardinality(D) >= 2 =>
              /\ PathsOf(Pipe(n).output_map, f) = {Prefix(Pipe(n).stages, Max(D))}
              /\ \A i \in D \ {Max(D)} :
                    Prefix(Pipe(n).stages, i) \notin PathsOf(Pipe(n).output_map, f)

\* A chain [A, B, C] whose first and last stages, two different stages, both
\* declare reads.fastq has been constructed.
C1_Witness ==
    \E n \in Registered :
        /\ Len(Pipe(n).stages) = 3
        /\ Declarers(Pipe(n).stages, "reads.fastq") = {1, 3}
        /\ Pipe(n).stages[1] # Pipe(n).stages[3]
        /\ PathsOf(Pipe(n).output_map, "reads.fastq") = {Join(Pipe(n).stages)}

\* C2: the list a caller gets from `outputs` holds exactly the keys of the
\* pipeline's output map, and it has as many entries as there are distinct
\* output filenames declared by the resolvable stages of the chain.
C2_OutputsAreKeys ==
    /\ \A n \in Registered :
          Len(Pipe(n).output_map) = Cardinality(DeclaredFiles(Pipe(n).stages))
    /\ (last.op = "outputs" /\ last.name \in Registered) =>
          /\ Range(last.value) =
                {Pipe(last.name).output_map[i].fname :
                    i \in 1..Len(Pipe(last.name).output_map)}
          /\ Len(last.value) = Cardinality(DeclaredFiles(Pipe(last.name).stages))

\* `outputs` was read on a pipeline with an unresolvable position and a
\* filename declared by two positions; the filename is counted once.
C2_Witness ==
    /\ last.op = "outputs"
    /\ last.name \in Registered
    /\ Len(last.value) = 2
    /\ Resolvable(Pipe(last.name).stages) # 1..Len(Pipe(last.name).stages)
    /\ \E f \in Files : Cardinality(Declarers(Pipe(last.name).stages, f)) = 2

\* The pipeline n starts a root-delegation chain of depth d that ends at the
\* registered project proj.
RECURSIVE RootedAt(_, _, _)
RootedAt(n, d, proj) ==
    /\ n \in Registered
    /\ Pipe(n).stages # <<>>
    /\ IF d = 1
       THEN Pipe(n).stages[1] = proj /\ proj \in projects
       ELSE /\ Pipe(n).stages[1] \notin projects
            /\ RootedAt(Pipe(n).stages[1], d - 1, proj)

Depths == 1..Cardinality(PipelineNames)

RECURSIVE Hops(_, _)
Hops(n, k) ==
    \/ k = 0
    \/ /\ n \in Registered
       /\ Pipe(n).stages # <<>>
       /\ Pipe(n).stages[1] \notin projects
       /\ Pipe(n).stages[1] \in Registered
       /\ Hops(Pipe(n).stages[1], k - 1)

\* The root delegation from n comes back to a pipeline it has visited.
Cyclic(n) == n \in Registered /\ Hops(n, Cardinality(Registered))

\* C4: reading `project` on a pipeline whose root delegation cycles back on
\* itself ends in a configuration error.
C4_CycleIsConfigError ==
    (last.op = "project" /\ Cyclic(last.name)) => last.status = YmpConfigError

\* C5: constructing a pipeline whose first stage name is registered neither
\* as a project nor as a pipeline fails with a configuration error, and no
\* pipeline is handed out.
C5_UnrootedFailsConstruction ==
    (/\ last.op = "init"
     /\ last.value # <<>>
     /\ last.value[1] \notin projects \cup Registered) =>
        /\ last.status = YmpConfigError
        /\ last.name \notin Registered

\* C6: constructing a pipeline with an empty stage list fails with a
\* configuration error: no pipeline with an empty chain exists, and no read
\* of `project` fails on a missing first stage name.
C6_EmptyChainFails ==
    /\ (last.op = "init" /\ last.value = <<>>) =>
          last.status = YmpConfigError /\ last.name \notin Registered
    /\ \A n \in Registered : Pipe(n).stages # <<>>
    /\ last.op = "project" => last.status # IndexError

\* A pipeline was declared with an empty stage list.
C6_Witness ==
    /\ last.op = "init"
    /\ last.value = <<>>
    /\ last.status = YmpConfigError

\* The instances constructed under the current configuration.
Live == {i \in 1..Len(heap) : heap[i].cfg = cfgid}

\* C7: within one configuration session there is at most one StageStack
\* instance per chain key, the instance a get returns is the one of its key,
\* and a get returns the stack of a pipeline exactly when its key is the
\* pipeline's chain joined in order.
C7_OneStackPerKey ==
    /\ \A i, j \in Live : heap[i].path = heap[j].path => i = j
    /\ (last.op = "get" /\ last.status = Ok) =>
          /\ last.value[1] \in Live
          /\ heap[last.value[1]].path = last.name
          /\ \A n \in Registered :
                (Pipe(n).stagestack = last.value[1]) <=>
                    (Join(Pipe(n).stages) = last.name)

\* A get returned the instance a pipeline's construction had memoized, while
\* the same names in the other order have an instance of their own.
C7_Witness ==
    /\ last.op = "get"
    /\ last.status = Ok
    /\ \E n \in Registered : Pipe(n).stagestack = last.value[1]
    /\ \E i, j \in Live :
          /\ heap[i].path = "proj1.import"
          /\ heap[j].path = "import.proj1"

\* C8: every instance a get returns, every instance in the memo table and
\* every pipeline's stack was constructed under the current configuration.
C8_NoLeakAcrossReload ==
    /\ (last.op = "get" /\ last.status = Ok) => last.value[1] \in Live
    /\ \A key \in DOMAIN stacks[cfgid] : stacks[cfgid][key] \in Live
    /\ \A n \in Registered : Pipe(n).stagestack \in Live

\* After a reload, a get asked for a key that had an instance under the
\* previous configuration.
C8_Witness ==
    /\ cfgid >= 1
    /\ last.op = "get"
    /\ last.status = Ok
    /\ \E i \in 1..Len(heap) :
          heap[i].path = last.name /\ heap[i].cfg < cfgid

\* C9: the threads that have received an instance for the same key have
\* received the same one, and one instance has been constructed per key.
C9_AtomicCheckThenInsert ==
    /\ \A t, u \in Threads :
          (tret[t] # 0 /\ tret[u] # 0 /\ tkey[t] = tkey[u]) => tret[t] = tret[u]
    /\ \A i, j \in Live : heap[i].path = heap[j].path => i = j

\* Two threads asked for the same new key at once; one has inserted its
\* instance and the other has received that same instance.
C9_Witness ==
    \E t, u \in Threads :
        /\ t # u
        /\ tkey[t] = tkey[u]
        /\ tpc[t] = "release"
        /\ tret[t] = Len(heap)
        /\ tpc[u] = "acquire"

\* The positions n, n-1, ..., 1.
Countdown(n) == [i \in 1..n |-> n + 1 - i]

\* C10: constructing a pipeline whose chain holds names that are not stages
\* raises nothing; the walk visits every position once, from the tail to the
\* head, and every resolvable position's outputs are in the output map.
C10_SkipNotAbort ==
    /\ (last.op = "init" /\ last.value # <<>>) => last.status = Ok
    /\ \A n \in Registered :
          /\ Pipe(n).visited = Countdown(Len(Pipe(n).stages))
          /\ \A i \in Resolvable(Pipe(n).stages) :
                \A f \in Range(stage_registry[Pipe(n).stages[i]]) :
                    HasKey(Pipe(n).output_map, f)

\* A chain with a stage before a name that is not a stage has been walked:
\* the walk met the name that is not a stage first and went on to the stage.
C10_Witness ==
    \E n \in Registered :
        \E i, j \in 1..Len(Pipe(n).stages) :
            /\ i < j
            /\ i \in Resolvable(Pipe(n).stages)
            /\ j \notin Resolvable(Pipe(n).stages)
            /\ Pipe(n).output_map # <<>>

\* The entries of an output map, as a set.
Entries(output_map) == {output_map[i] : i \in 1..Len(output_map)}

\* The chain and the registry of the import / trim_bbmap scenario.
ScenarioChain == <<"proj1", "import", "trim_bbmap">>
ScenarioRegistry ==
    ("import" :> <<"reads.fastq">>) @@ ("trim_bbmap" :> <<"reads.fastq", "log.txt">>)

\* C11: every entry f -> p of a pipeline's output map has for p the names of
\* the chain up to and including a position whose stage resolves and declares
\* f, joined by the separator; in the scenario both reads.fastq and log.txt
\* map to "proj1.import.trim_bbmap".
C11_PathIsDeclaringPrefix ==
    \A n \in Registered :
        /\ \A e \in Entries(Pipe(n).output_map) :
              \E i \in Declarers(Pipe(n).stages, e.fname) :
                  e.path = Prefix(Pipe(n).stages, i)
        /\ (Pipe(n).stages = ScenarioChain /\ stage_registry = ScenarioRegistry) =>
              Entries(Pipe(n).output_map) =
                  {[fname |-> "reads.fastq", path |-> "proj1.import.trim_bbmap"],
                   [fname |-> "log.txt", path |-> "proj1.import.trim_bbmap"]}

\* The scenario's pipeline has been constructed.
C11_Witness ==
    /\ stage_registry = ScenarioRegistry
    /\ \E n \in Registered :
          /\ Pipe(n).stages = ScenarioChain
          /\ Len(Pipe(n).output_map) = 2

\* The reads of a pipeline.
Reads == {"project", "outputs", "get_path", "stamp"}

\* What a constructed pipeline's stage list is: the list its constructor was
\* given, the list whose key it asked the stage stack for, and the list whose
\* first name a resolved `project` is read from.
C12_StagesAsGiven ==
    /\ (last.op = "init" /\ last.status = Ok) =>
          /\ last.name \in Registered
          /\ Pipe(last.name).stages = last.value
    /\ \A n \in Registered :
          Join(Pipe(n).stages) = heap[Pipe(n).stagestack].path
    /\ (last.op = "project" /\ last.status = Ok /\ last.depth = 1) =>
          last.value = <<Head(Pipe(last.name).stages)>>

\* No step changes the stage list or the output map of a registered pipeline.
C12_StepKeeps ==
    \A n \in Registered :
        /\ n \in DOMAIN pipelines'[cfgid']
        /\ pipelines'[cfgid'][n].stages = Pipe(n).stages
        /\ pipelines'[cfgid'][n].output_map = Pipe(n).output_map

\* C12: after construction and across every later construction and read
\* (project, outputs, get_path, stamp), in any order and number, a pipeline's
\* stage list is the list given at construction and its output map is what
\* construction made it.
C12_ChainImmutable == []C12_StagesAsGiven /\ [][C12_StepKeeps]_vars

\* A pipeline with a chain of several names and a non-empty output map has
\* been constructed and then read.
C12_Witness ==
    /\ last.op \in Reads
    /\ last.name \in Registered
    /\ Len(Pipe(last.name).stages) >= 2
    /\ Pipe(last.name).output_map # <<>>
    /\ \E m \in Registered : m # last.name

\* C13: a read of `project` on a pipeline whose first stage name is a
\* registered project returns that project from the first activation of the
\* property, whether or not the name is also a registered pipeline; no
\* activation is entered on the pipeline of that name.
C13_ProjectsBeforePipelines ==
    /\ (frame.active /\ Head(Pipe(frame.pipe).stages) \in projects) =>
          frame.depth = 1
    /\ (last.op = "project" /\ Head(Pipe(last.name).stages) \in projects) =>
          /\ last.status = Ok
          /\ last.value = <<Head(Pipe(last.name).stages)>>
          /\ last.depth = 1

\* `project` has been read on a pipeline whose first stage name is its own
\* name, registered as a project too.
C13_Witness ==
    /\ last.op = "project"
    /\ Head(Pipe(last.name).stages) = last.name
    /\ last.name \in projects
    /\ last.name \in Registered
    /\ last.status = Ok

====
